---- MODULE Spec2Model ----
(***************************************************************************)
(* A model of the Sudoku solving engine of src/main.rs: Sudoku::new,       *)
(* find_candidates (one sweep of constraint propagation) and               *)
(* guess_solutions (backtracking over the remaining unsolved cells).       *)
(* One action is one iteration of a loop of the engine.                    *)
(***************************************************************************)
EXTENDS Integers, FiniteSets, Sequences, TLC

\* Side of the board: Board = [[Cell; 9]; 9].
N == 9
\* Side of a block: row / 3 * 3 + col / 3.
BlockSide == 3
\* Option::None, for solution, candidate and candidate_idx.
None == -1

\* Number of hash seeds tried: a seed fixes the order in which every
\* HashSet of the run enumerates its elements.
NumSeeds == 2
\* Largest number of cells of BlankSeq blanked in the solved grid.
MaxBlanks == 17
\* The pre-filled digit of the first MaxOverridePos cells of BlankSeq can be
\* replaced by any digit.
MaxOverridePos == 1

Idx == 0..(N - 1)
Digits == 1..N
NumCells == N * N

Min(a, b) == IF a < b THEN a ELSE b

\* Cell::solved
solved(n) ==
  [solution |-> n, candidates |-> {}, candidate |-> None, candidate_idx |-> None]

\* Cell::unsolved
unsolved ==
  [solution |-> None, candidates |-> {}, candidate |-> None, candidate_idx |-> None]

\* A board from a literal grid, 0 standing for unsolved().
BoardOf(grid) ==
  [row \in Idx |-> [col \in Idx |->
     IF grid[row + 1][col + 1] = 0 THEN unsolved ELSE solved(grid[row + 1][col + 1])]]

\* default_board: the example puzzle.
default_board ==
  BoardOf(<< <<0, 0, 5, 0, 0, 8, 0, 0, 0>>,
             <<0, 2, 0, 0, 0, 0, 5, 0, 0>>,
             <<7, 9, 0, 3, 4, 5, 6, 2, 0>>,
             <<0, 0, 0, 6, 0, 4, 7, 1, 0>>,
             <<0, 4, 9, 5, 0, 7, 8, 3, 0>>,
             <<0, 1, 7, 8, 0, 2, 0, 0, 0>>,
             <<0, 5, 4, 7, 8, 3, 0, 9, 6>>,
             <<0, 0, 6, 0, 0, 0, 0, 5, 0>>,
             <<0, 0, 0, 1, 0, 0, 4, 0, 0>> >>)

\* The completion of the example puzzle, from which the other inputs are cut.
SolvedGrid ==
  BoardOf(<< <<3, 6, 5, 2, 7, 8, 1, 4, 9>>,
             <<4, 2, 8, 9, 6, 1, 5, 7, 3>>,
             <<7, 9, 1, 3, 4, 5, 6, 2, 8>>,
             <<2, 8, 3, 6, 9, 4, 7, 1, 5>>,
             <<6, 4, 9, 5, 1, 7, 8, 3, 2>>,
             <<5, 1, 7, 8, 3, 2, 9, 6, 4>>,
             <<1, 5, 4, 7, 8, 3, 2, 9, 6>>,
             <<8, 7, 6, 4, 2, 9, 3, 5, 1>>,
             <<9, 3, 2, 1, 5, 6, 4, 8, 7>> >>)

\* The unsolved cells of the example puzzle, in the order the inputs blank them.
BlankSeq ==
  << <<3, 1>>, <<0, 0>>, <<0, 6>>, <<1, 2>>, <<1, 7>>, <<1, 8>>, <<2, 2>>, <<2, 8>>, <<3, 2>>,
     <<6, 0>>, <<7, 0>>, <<7, 1>>, <<7, 6>>, <<7, 8>>, <<8, 1>>, <<8, 7>>, <<8, 8>>, <<0, 1>>,
     <<0, 3>>, <<0, 4>>, <<0, 7>>, <<0, 8>>, <<1, 0>>, <<1, 3>>, <<1, 4>>, <<1, 5>>, <<3, 0>>,
     <<3, 4>>, <<3, 8>>, <<4, 0>>, <<4, 4>>, <<4, 8>>, <<5, 0>>, <<5, 4>>, <<5, 6>>, <<5, 7>>,
     <<5, 8>>, <<6, 6>>, <<7, 3>>, <<7, 4>>, <<7, 5>>, <<8, 0>>, <<8, 2>>, <<8, 4>>, <<8, 5>> >>

\* The solved grid with the first k cells of BlankSeq unsolved.
Blanked(k) ==
  [row \in Idx |-> [col \in Idx |->
     IF \E i \in 1..k : BlankSeq[i] = <<row, col>> THEN unsolved ELSE SolvedGrid[row][col]]]

\* Board b with cell j of BlankSeq pre-filled with digit d (j = 0: b itself).
Override(b, j, d) ==
  IF j = 0 THEN b
  ELSE [b EXCEPT ![BlankSeq[j][1]][BlankSeq[j][2]] = solved(d)]

\* Four cells of the solved grid holding 9 6 / 6 9 in two rows and two columns
\* of one stack: left unsolved they can be completed in two ways.
Rectangle == { <<1, 3>>, <<1, 4>>, <<3, 3>>, <<3, 4>> }

\* Board b with the cells of Rectangle unsolved.
WithRectangle(b) ==
  [row \in Idx |-> [col \in Idx |->
     IF <<row, col>> \in Rectangle THEN unsolved ELSE b[row][col]]]

\* The boards handed to Sudoku::new.
Inputs ==
  LET ks == 0..Min(MaxBlanks, Len(BlankSeq))
  IN  { Override(Blanked(k), j, d) :
          k \in ks, j \in 0..Min(MaxOverridePos, Len(BlankSeq)), d \in Digits }
      \cup { Override(default_board, j, d) :
          j \in 0..Min(MaxOverridePos, Len(BlankSeq)), d \in Digits }
      \cup { WithRectangle(Blanked(k)) : k \in ks }

VARIABLES
  input,      \* the board passed to Sudoku::new
  board,      \* Sudoku.board
  blocks,     \* Sudoku.blocks
  seed,       \* the hash seed of the run
  pc,         \* "find_candidates", "guess_solutions" or "done"
  pos,        \* find_candidates: row * 9 + col of the sweep
  unsolved_list, \* guess_solutions: the local unsolved_cells
  cell_idx,   \* guess_solutions: the local cell_idx
  ret,        \* what solve returned: "pending", "None" or "Some" (of board)
  warned,     \* use_final_candidates printed "WARN: missing solution"
  run,        \* 1 for the first solve on the input, 2 for the second
  first       \* the result of run 1: [ret, board]

vars == <<input, board, blocks, seed, pc, pos, unsolved_list, cell_idx, ret, warned, run, first>>

\* block_index naming the first block of the band of the row for every column.
block_index_band(row, col) == (row \div BlockSide) * BlockSide

\* block_index with the roles of row and col exchanged.
block_index_transposed(row, col) == (col \div BlockSide) * BlockSide + (row \div BlockSide)

\* block_index
block_index(row, col) == (row \div BlockSide) * BlockSide + (col \div BlockSide)

\* make_blocks: every solved cell's digit is inserted into the set of the
\* block that block_index names for the cell.
make_blocks(b) ==
  [block_idx \in Idx |->
     { b[row_idx][col_idx].solution : <<row_idx, col_idx>> \in
         { rc \in Idx \X Idx :
             /\ b[rc[1]][rc[2]].solution # None
             /\ block_index(rc[1], rc[2]) = block_idx } }]

\* find_cell_candidates without the scan of the column.
find_cell_candidates_no_column(b, blks, row, col) ==
  { candidate \in Digits :
      /\ candidate \notin blks[block_index(row, col)]
      /\ \A other_col \in Idx : b[row][other_col].solution # candidate }

\* find_cell_candidates
find_cell_candidates(b, blks, row, col) ==
  { candidate \in Digits :
      /\ candidate \notin blks[block_index(row, col)]
      /\ \A other_row \in Idx : b[other_row][col].solution # candidate
      /\ \A other_col \in Idx : b[row][other_col].solution # candidate }

\* found_solution without the removal of the solution from the candidates of
\* the cells of its row.
found_solution_no_row_removal(b, blks, row, col, solution) ==
  LET block_row_start == (row \div BlockSide) * BlockSide
      block_col_start == (col \div BlockSide) * BlockSide
      b1 == [b EXCEPT ![row][col].solution = solution, ![row][col].candidates = {}]
      peer(r, c) ==
        \/ c = col
        \/ /\ r \in block_row_start..(block_row_start + BlockSide - 1)
           /\ c \in block_col_start..(block_col_start + BlockSide - 1)
  IN  [board  |-> [r \in Idx |-> [c \in Idx |->
                     IF peer(r, c)
                       THEN [b1[r][c] EXCEPT !.candidates = @ \ {solution}]
                       ELSE b1[r][c]]],
       blocks |-> [blks EXCEPT ![block_index(row, col)] = @ \cup {solution}]]

\* found_solution with the block of the cell started at row / 3 and col / 3.
found_solution_wrong_block_start(b, blks, row, col, solution) ==
  LET block_row_start == row \div BlockSide
      block_col_start == col \div BlockSide
      b1 == [b EXCEPT ![row][col].solution = solution, ![row][col].candidates = {}]
      peer(r, c) ==
        \/ c = col
        \/ r = row
        \/ /\ r \in block_row_start..(block_row_start + BlockSide - 1)
           /\ c \in block_col_start..(block_col_start + BlockSide - 1)
  IN  [board  |-> [r \in Idx |-> [c \in Idx |->
                     IF peer(r, c)
                       THEN [b1[r][c] EXCEPT !.candidates = @ \ {solution}]
                       ELSE b1[r][c]]],
       blocks |-> [blks EXCEPT ![block_index(row, col)] = @ \cup {solution}]]

\* found_solution without the insertion of the solution into the block cache.
found_solution_no_block_insert(b, blks, row, col, solution) ==
  LET block_row_start == (row \div BlockSide) * BlockSide
      block_col_start == (col \div BlockSide) * BlockSide
      b1 == [b EXCEPT ![row][col].solution = solution, ![row][col].candidates = {}]
      peer(r, c) ==
        \/ c = col
        \/ r = row
        \/ /\ r \in block_row_start..(block_row_start + BlockSide - 1)
           /\ c \in block_col_start..(block_col_start + BlockSide - 1)
  IN  [board  |-> [r \in Idx |-> [c \in Idx |->
                     IF peer(r, c)
                       THEN [b1[r][c] EXCEPT !.candidates = @ \ {solution}]
                       ELSE b1[r][c]]],
       blocks |-> blks]

\* found_solution removing the solution from the candidates of every cell of
\* the board.
found_solution_removes_everywhere(b, blks, row, col, solution) ==
  LET b1 == [b EXCEPT ![row][col].solution = solution, ![row][col].candidates = {}]
  IN  [board  |-> [r \in Idx |-> [c \in Idx |->
                     [b1[r][c] EXCEPT !.candidates = @ \ {solution}]]],
       blocks |-> [blks EXCEPT ![block_index(row, col)] = @ \cup {solution}]]

\* found_solution: the board and the blocks after the commit.
found_solution(b, blks, row, col, solution) ==
  LET block_row_start == (row \div BlockSide) * BlockSide
      block_col_start == (col \div BlockSide) * BlockSide
      b1 == [b EXCEPT ![row][col].solution = solution, ![row][col].candidates = {}]
      peer(r, c) ==
        \/ c = col
        \/ r = row
        \/ /\ r \in block_row_start..(block_row_start + BlockSide - 1)
           /\ c \in block_col_start..(block_col_start + BlockSide - 1)
  IN  [board  |-> [r \in Idx |-> [c \in Idx |->
                     IF peer(r, c)
                       THEN [b1[r][c] EXCEPT !.candidates = @ \ {solution}]
                       ELSE b1[r][c]]],
       blocks |-> [blks EXCEPT ![block_index(row, col)] = @ \cup {solution}]]

\* The body of the loop of find_candidates without its "skip solved cells".
find_candidates_cell_no_skip(b, blks, row, col) ==
  LET candidates == find_cell_candidates(b, blks, row, col)
  IN  IF Cardinality(candidates) = 1
        THEN found_solution(b, blks, row, col, CHOOSE s \in candidates : TRUE)
      ELSE IF candidates # {}
        THEN [board |-> [b EXCEPT ![row][col].candidates = candidates], blocks |-> blks]
      ELSE [board |-> b, blocks |-> blks]

\* The body of the loop of find_candidates for one cell.
find_candidates_cell(b, blks, row, col) ==
  IF b[row][col].solution # None THEN [board |-> b, blocks |-> blks]
  ELSE LET candidates == find_cell_candidates(b, blks, row, col)
       IN  IF Cardinality(candidates) = 1
             THEN found_solution(b, blks, row, col, CHOOSE s \in candidates : TRUE)
           ELSE IF candidates # {}
             THEN [board |-> [b EXCEPT ![row][col].candidates = candidates], blocks |-> blks]
           ELSE [board |-> b, blocks |-> blks]

\* The place of digit d in the enumeration of a HashSet of cell (row, col)
\* under hash seed s: the order is fixed by the hasher, not by the digits.
HashKey(d, s, row, col) ==
  LET rot == ((s \div 2) * (row + col + 1)) % N
      k == (d - 1 + rot) % N
  IN  IF s % 2 = 0 THEN k ELSE N - 1 - k

\* candidates.iter().nth(idx)
nth(candidates, s, row, col, idx) ==
  CHOOSE d \in candidates :
    Cardinality({e \in candidates : HashKey(e, s, row, col) < HashKey(d, s, row, col)}) = idx

\* unsolved_cells: the unsolved cells in the order of the scan, row by row.
unsolved_cells(b) ==
  LET open == { i \in 0..(NumCells - 1) : b[i \div N][i % N].solution = None }
      at(k) == CHOOSE i \in open : Cardinality({ j \in open : j < i }) = k - 1
  IN  [k \in 1..Cardinality(open) |-> <<at(k) \div N, at(k) % N>>]

\* can_choose_candidate scanning 0..=col and 0..=row, the cell itself included.
can_choose_candidate_inclusive(b, row, col, candidate) ==
  /\ \A other_col \in 0..col :
       ~(b[row][other_col].solution = None /\ b[row][other_col].candidate = candidate)
  /\ \A other_row \in 0..row :
       ~(b[other_row][col].solution = None /\ b[other_row][col].candidate = candidate)

\* can_choose_candidate
can_choose_candidate(b, row, col, candidate) ==
  /\ \A other_col \in 0..(col - 1) :
       ~(b[row][other_col].solution = None /\ b[row][other_col].candidate = candidate)
  /\ \A other_row \in 0..(row - 1) :
       ~(b[other_row][col].solution = None /\ b[other_row][col].candidate = candidate)

\* use_final_candidates stopping one row early.
use_final_candidates_short(b) ==
  [row \in Idx |-> [col \in Idx |->
     IF row < N - 1 /\ b[row][col].solution = None /\ b[row][col].candidate # None
       THEN [b[row][col] EXCEPT !.solution = b[row][col].candidate]
       ELSE b[row][col]]]

\* use_final_candidates: the board it leaves.
use_final_candidates(b) ==
  [row \in Idx |-> [col \in Idx |->
     IF b[row][col].solution = None /\ b[row][col].candidate # None
       THEN [b[row][col] EXCEPT !.solution = b[row][col].candidate]
       ELSE b[row][col]]]

\* use_final_candidates: whether it reaches the "missing solution" branch.
missing_solution(b) ==
  \E row \in Idx, col \in Idx :
    b[row][col].solution = None /\ b[row][col].candidate = None

\* Sudoku::new on one of the inputs, under one hash seed.
Init ==
  /\ input \in Inputs
  /\ board = input
  /\ blocks = make_blocks(input)
  /\ seed \in 0..(NumSeeds - 1)
  /\ pc = "find_candidates"
  /\ pos = 0
  /\ unsolved_list = <<>>
  /\ cell_idx = 0
  /\ ret = "pending"
  /\ warned = FALSE
  /\ run = 1
  /\ first = [ret |-> "pending", board |-> input]

\* find_candidates: one iteration of the sweep, over every branch of its body.
FindCandidatesStep(kind) ==
  /\ pc = "find_candidates"
  /\ pos < NumCells
  /\ LET row == pos \div N
         col == pos % N
         cands == find_cell_candidates(board, blocks, row, col)
         next == find_candidates_cell(board, blocks, row, col)
     IN  /\ kind = IF board[row][col].solution # None THEN "skip"
                   ELSE IF Cardinality(cands) = 1 THEN "solve"
                   ELSE IF cands # {} THEN "store"
                   ELSE "empty"
         /\ board' = next.board
         /\ blocks' = next.blocks
  /\ pos' = pos + 1
  /\ UNCHANGED <<input, seed, pc, unsolved_list, cell_idx, ret, warned, run, first>>

FindCandidatesSkip == FindCandidatesStep("skip")
FindCandidatesSolve == FindCandidatesStep("solve")
FindCandidatesStore == FindCandidatesStep("store")
FindCandidatesEmpty == FindCandidatesStep("empty")

\* solve: find_candidates is over, guess_solutions starts.
StartGuess ==
  /\ pc = "find_candidates"
  /\ pos = NumCells
  /\ pc' = "guess_solutions"
  /\ unsolved_list' = unsolved_cells(board)
  /\ cell_idx' = 0
  /\ UNCHANGED <<input, board, blocks, seed, pos, ret, warned, run, first>>

\* The cursor the inner loop of guess_solutions is at for cell (row, col).
cand_idx_of(b, row, col) ==
  IF b[row][col].candidate_idx # None THEN b[row][col].candidate_idx ELSE 0

\* The tentative pick without the increment of the cursor.
choose_candidate_no_increment(b, row, col, candidate, cand_idx) ==
  [b EXCEPT ![row][col].candidate = candidate, ![row][col].candidate_idx = cand_idx]

\* guess_solutions: the tentative pick of the inner loop, cursor moved on.
choose_candidate(b, row, col, candidate, cand_idx) ==
  [b EXCEPT ![row][col].candidate = candidate, ![row][col].candidate_idx = cand_idx + 1]

\* guess_solutions: one iteration of the inner loop.
TryCandidate(accepted) ==
  /\ pc = "guess_solutions"
  /\ cell_idx < Len(unsolved_list)
  /\ LET row == unsolved_list[cell_idx + 1][1]
         col == unsolved_list[cell_idx + 1][2]
         cand_idx == cand_idx_of(board, row, col)
     IN  /\ cand_idx < Cardinality(board[row][col].candidates)
         /\ LET candidate == nth(board[row][col].candidates, seed, row, col, cand_idx)
                b1 == choose_candidate(board, row, col, candidate, cand_idx)
            IN  /\ board' = b1
                /\ accepted = can_choose_candidate(b1, row, col, candidate)
                /\ cell_idx' = IF accepted THEN cell_idx + 1 ELSE cell_idx
  /\ UNCHANGED <<input, blocks, seed, pc, pos, unsolved_list, ret, warned, run, first>>

TryAccept == TryCandidate(TRUE)
TryReject == TryCandidate(FALSE)

\* The inner loop of guess_solutions is over for the cell at cell_idx.
Exhausted ==
  /\ pc = "guess_solutions"
  /\ cell_idx < Len(unsolved_list)
  /\ LET row == unsolved_list[cell_idx + 1][1]
         col == unsolved_list[cell_idx + 1][2]
     IN  cand_idx_of(board, row, col) >= Cardinality(board[row][col].candidates)

\* The reset that forgets to clear the tentative candidate.
reset_cell_keep_candidate(b, row, col) ==
  [b EXCEPT ![row][col].candidate_idx = None]

\* The reset that forgets to clear the cursor.
reset_cell_keep_cursor(b, row, col) ==
  [b EXCEPT ![row][col].candidate = None]

\* The cell at cell_idx with its candidate and cursor reset.
reset_cell(b, row, col) ==
  [b EXCEPT ![row][col].candidate = None, ![row][col].candidate_idx = None]

\* guess_solutions: no candidate left for the cell, go back one cell.
Backtrack ==
  /\ Exhausted
  /\ cell_idx # 0
  /\ board' = reset_cell(board, unsolved_list[cell_idx + 1][1], unsolved_list[cell_idx + 1][2])
  /\ cell_idx' = cell_idx - 1
  /\ UNCHANGED <<input, blocks, seed, pc, pos, unsolved_list, ret, warned, run, first>>

\* guess_solutions: no candidate left for the first cell, return None.
Fail ==
  /\ Exhausted
  /\ cell_idx = 0
  /\ board' = reset_cell(board, unsolved_list[cell_idx + 1][1], unsolved_list[cell_idx + 1][2])
  /\ pc' = "done"
  /\ ret' = "None"
  /\ UNCHANGED <<input, blocks, seed, pos, unsolved_list, cell_idx, warned, run, first>>

\* guess_solutions: past the last unsolved cell, return Some(board).
Succeed ==
  /\ pc = "guess_solutions"
  /\ cell_idx >= Len(unsolved_list)
  /\ warned' = missing_solution(board)
  /\ board' = use_final_candidates(board)
  /\ pc' = "done"
  /\ ret' = "Some"
  /\ UNCHANGED <<input, blocks, seed, pos, unsolved_list, cell_idx, run, first>>

\* The caller builds a new Sudoku from the same input and solves again;
\* the sets of the new engine have their own hashers.
Rerun ==
  /\ pc = "done"
  /\ run = 1
  /\ first' = [ret |-> ret, board |-> board]
  /\ run' = 2
  /\ board' = input
  /\ blocks' = make_blocks(input)
  /\ seed' \in 0..(NumSeeds - 1)
  /\ pc' = "find_candidates"
  /\ pos' = 0
  /\ unsolved_list' = <<>>
  /\ cell_idx' = 0
  /\ ret' = "pending"
  /\ warned' = FALSE
  /\ UNCHANGED input

Next ==
  \/ FindCandidatesSkip
  \/ FindCandidatesSolve
  \/ FindCandidatesStore
  \/ FindCandidatesEmpty
  \/ StartGuess
  \/ TryAccept
  \/ TryReject
  \/ Backtrack
  \/ Fail
  \/ Succeed

Spec == Init /\ [][Next]_vars

\* One call of solve runs to its end: no step of it is postponed for ever.
FairSpec == Spec /\ WF_vars(Next)

NextRerun == Next \/ Rerun

\* Two solves of the same input, one after the other.
SpecRerun == Init /\ [][NextRerun]_vars

(***************************************************************************)
(* Properties                                                              *)
(***************************************************************************)

\* Two distinct cells that share a row, a column or a 3x3 block.
Peers(r1, c1, r2, c2) ==
  /\ <<r1, c1>> # <<r2, c2>>
  /\ \/ r1 = r2
     \/ c1 = c2
     \/ (r1 \div 3 = r2 \div 3 /\ c1 \div 3 = c2 \div 3)

\* No digit is repeated among the solved cells of a row, a column or a block.
Consistent(b) ==
  \A r1 \in Idx, c1 \in Idx, r2 \in Idx, c2 \in Idx :
    (Peers(r1, c1, r2, c2) /\ b[r1][c1].solution # None) =>
      b[r1][c1].solution # b[r2][c2].solution

\* Every cell is solved, with a digit.
Complete(b) == \A r \in Idx, c \in Idx : b[r][c].solution \in Digits

\* The grid g of solutions (cell i is row i \div 9, column i % 9) can be
\* completed without repeating a digit among peers.
RECURSIVE Completable(_)
Completable(g) ==
  LET open == { i \in 0..80 : g[i] = None }
  IN  IF open = {} THEN TRUE
      ELSE LET i == CHOOSE x \in open : \A y \in open : x <= y
           IN  \E d \in Digits :
                 /\ \A j \in 0..80 :
                      Peers(i \div 9, i % 9, j \div 9, j % 9) => g[j] # d
                 /\ Completable([g EXCEPT ![i] = d])

\* Board b has a completion that satisfies row, column and block uniqueness.
HasCompletion(b) ==
  Consistent(b) /\ Completable([i \in 0..80 |-> b[i \div 9][i % 9].solution])

\* solve has returned a grid.
Returned == pc = "done" /\ ret = "Some"

\* The cells of the input that were unsolved.
InputUnsolved == { rc \in Idx \X Idx : input[rc[1]][rc[2]].solution = None }

\* C1: when the pre-filled cells of the input are consistent and solve returns
\* a grid, any two distinct cells of the grid that share a row, a column or a
\* block have different solutions.
C1_ReturnedGridUnique ==
  (Returned /\ Consistent(input)) => Consistent(board)

\* C2: when solve returns a grid, every cell of it has a solution in 1..9 and
\* use_final_candidates did not reach its "missing solution" branch.
C2_ReturnedGridComplete ==
  Returned => (Complete(board) /\ ~warned)

\* C2 witness: a grid was returned after a search over cells that propagation
\* left unsolved, one of which was entered, left and entered again.
C2_Witness ==
  /\ Returned
  /\ Len(unsolved_list) > 1
  /\ \E k \in 1..Len(unsolved_list) :
       board[unsolved_list[k][1]][unsolved_list[k][2]].candidate_idx > 1

\* C3: solve returns None only when the consistent input has no completion.
C3_NoneOnlyIfNoCompletion ==
  (pc = "done" /\ ret = "None" /\ Consistent(input)) => ~HasCompletion(input)

\* C3 witness: a consistent input with a completion and cells left to the
\* search has been solved to a grid.
C3_Witness ==
  /\ Returned
  /\ Len(unsolved_list) > 1
  /\ input # default_board
  /\ HasCompletion(input)

\* C4: for a consistent input without any completion solve returns None,
\* never a grid.
C4_NoCompletionGivesNone ==
  (Returned /\ Consistent(input)) => HasCompletion(input)

\* C5: for an input with a digit repeated among the pre-filled cells of a
\* row, a column or a block, solve returns None, never a grid.
C5_InconsistentGivesNone ==
  (pc = "done" /\ ~Consistent(input)) => ret = "None"

\* C6: a cell that is solved in the input keeps its solution in every state of
\* the engine, the returned grid included.
C6_FixedCellsPreserved ==
  \A r \in Idx, c \in Idx :
    input[r][c].solution # None => board[r][c].solution = input[r][c].solution

\* C6 witness: a grid was returned for an input with pre-filled cells, some
\* cells committed by found_solution and some by use_final_candidates.
C6_Witness ==
  /\ Returned
  /\ Len(unsolved_list) > 0
  /\ Cardinality(InputUnsolved) > Len(unsolved_list)
  /\ \E r \in Idx, c \in Idx : input[r][c].solution # None

\* C7: solving default_board returns a grid, every cell of which is solved
\* and differs from every other cell of its row, column and block.
C7_DefaultBoardSolved ==
  (pc = "done" /\ input = default_board) =>
    (ret = "Some" /\ Complete(board) /\ Consistent(board))

\* C8: the second solve of an input returns what the first one returned:
\* both None, or grids with the same solution in every cell.
C8_RerunSameResult ==
  (pc = "done" /\ run = 2) =>
    /\ ret = first.ret
    /\ ret = "Some" =>
         \A r \in Idx, c \in Idx : board[r][c].solution = first.board[r][c].solution

\* The progress of the search: twice the cursor of every unsolved cell, less
\* one for the cells the search has advanced past.
Rank ==
  [k \in 1..Len(unsolved_list) |->
     LET cursor == cand_idx_of(board, unsolved_list[k][1], unsolved_list[k][2])
     IN  IF k - 1 < cell_idx THEN 2 * cursor - 1 ELSE 2 * cursor]

\* Sequence a comes before sequence b of the same length, lexicographically.
LexLess(a, b) ==
  \E k \in 1..Len(a) :
    /\ a[k] < b[k]
    /\ \A j \in 1..(k - 1) : a[j] = b[j]

\* C9: solve terminates, and every step of the backtracking loop moves the
\* search strictly forward in the lexicographic order of the cursors, so no
\* combination of search index and tentative assignments is visited twice.
C9_Terminates ==
  /\ <>(pc = "done")
  /\ [][(pc = "guess_solutions" /\ pc' = "guess_solutions") => LexLess(Rank, Rank')]_vars

\* C9 witness: solve returned None after a search that went through several
\* cells.
C9_Witness ==
  /\ pc = "done"
  /\ ret = "None"
  /\ Len(unsolved_list) > 2

\* The sets of test_make_blocks, for default_board.
ExpectedDefaultBlocks ==
  [b \in Idx |-> << {5, 2, 7, 9}, {8, 3, 4, 5}, {5, 6, 2},
                   {4, 9, 1, 7}, {6, 4, 5, 7, 8, 2}, {7, 8, 1, 3},
                   {5, 4, 6}, {7, 8, 3, 1}, {9, 6, 5, 4} >>[b + 1]]

\* C10: the nine sets that make_blocks gives Sudoku::new hold, for each block
\* b, exactly the solutions of the solved cells (row, col) of the board with
\* (row / 3) * 3 + col / 3 = b; for default_board these are the sets
\* test_make_blocks expects.
C10_MakeBlocksPartition ==
  (pc = "find_candidates" /\ pos = 0) =>
    /\ \A b \in 0..8 :
         blocks[b] =
           { d \in 1..9 : \E row \in 0..8, col \in 0..8 :
               /\ (row \div 3) * 3 + col \div 3 = b
               /\ input[row][col].solution = d }
    /\ input = default_board => blocks = ExpectedDefaultBlocks

\* C10 witness: the engine has just been built from default_board, whose
\* first block has solved and unsolved cells.
C10_Witness ==
  /\ input = default_board
  /\ pc = "find_candidates"
  /\ pos = 0
  /\ blocks[0] = {2, 5, 7, 9}
  /\ blocks[4] = {2, 4, 5, 6, 7, 8}

\* Cell k of unsolved_list (from 1), as <<row, col>>.
UCell(k) == unsolved_list[k]

\* The tentative candidate of cell k of unsolved_list.
UCand(k) == board[UCell(k)[1]][UCell(k)[2]].candidate

\* Cells k1 and k2 of unsolved_list lie in the same 3x3 block.
USameBlock(k1, k2) ==
  /\ UCell(k1)[1] \div 3 = UCell(k2)[1] \div 3
  /\ UCell(k1)[2] \div 3 = UCell(k2)[2] \div 3

\* C11: for an input with consistent pre-filled cells, a cell the search has
\* advanced past holds a tentative digit that no earlier unsolved cell of the
\* same 3x3 block holds as its tentative digit.
C11_TentativeBlockDistinct ==
  (pc = "guess_solutions" /\ Consistent(input)) =>
    \A k2 \in 1..Min(cell_idx, Len(unsolved_list)) : \A k1 \in 1..(k2 - 1) :
      USameBlock(k1, k2) => UCand(k1) # UCand(k2)

\* C12: while guess_solutions runs, the unsolved cells after the one at
\* cell_idx have neither candidate nor cursor, and those before it hold a
\* tentative candidate.
C12_OnlyEarlierCellsTentative ==
  pc = "guess_solutions" =>
    \A k \in 1..Len(unsolved_list) :
      LET cell == board[UCell(k)[1]][UCell(k)[2]]
      IN  /\ k - 1 > cell_idx => (cell.candidate = None /\ cell.candidate_idx = None)
          /\ k - 1 < cell_idx => cell.candidate # None

\* C12 witness: can_choose_candidate is about to be evaluated for a cell the
\* search came back to, with cells before it and cells after it.
C12_Witness ==
  /\ pc = "guess_solutions"
  /\ cell_idx > 0
  /\ cell_idx + 1 < Len(unsolved_list)
  /\ LET cell == board[UCell(cell_idx + 1)[1]][UCell(cell_idx + 1)[2]]
     IN  /\ cell.candidate_idx # None
         /\ cell.candidate_idx < Cardinality(cell.candidates)

\* C13: a cell whose solution is present has no candidates, no tentative
\* candidate and no cursor, in every state of the engine.
C13_SolvedCellHasNoSearchState ==
  \A r \in Idx, c \in Idx :
    board[r][c].solution # None =>
      /\ board[r][c].candidates = {}
      /\ board[r][c].candidate = None
      /\ board[r][c].candidate_idx = None

\* The cells of the input that the engine has solved so far.
Committed ==
  { rc \in InputUnsolved : board[rc[1]][rc[2]].solution # None }

\* The 27 units: the rows, the columns and the 3x3 blocks, as sets of cells.
Units ==
  { { <<r, c>> : c \in 0..8 } : r \in 0..8 }
    \cup { { <<r, c>> : r \in 0..8 } : c \in 0..8 }
    \cup { { <<3 * br + r, 3 * bc + c>> : r \in 0..2, c \in 0..2 } : br \in 0..2, bc \in 0..2 }

\* The solved digits of every unit of board b are pairwise distinct.
UnitsDistinct(b) ==
  \A unit \in Units :
    LET done == { rc \in unit : b[rc[1]][rc[2]].solution # None }
    IN  Cardinality({ b[rc[1]][rc[2]].solution : rc \in done }) = Cardinality(done)

\* C14: for an input with consistent pre-filled cells, the solved digits of
\* every row, column and block are pairwise distinct after every commit of
\* find_candidates and when the backtracking phase starts.
C14_PropagationKeepsConsistent ==
  (pc = "find_candidates" /\ UnitsDistinct(input)) => UnitsDistinct(board)

\* C14 witness: find_candidates has finished on a consistent input after
\* committing cells through found_solution, leaving others unsolved.
C14_Witness ==
  /\ pc = "find_candidates"
  /\ pos = NumCells
  /\ Cardinality(Committed) > 2
  /\ Cardinality(Committed) < Cardinality(InputUnsolved)
  /\ UnitsDistinct(input)

\* The solutions of the solved cells of the row, the column and the block of
\* cell (r, c) of board b.
PeerSolutions(b, r, c) ==
  ({ b[r][k].solution : k \in 0..8 }
     \cup { b[k][c].solution : k \in 0..8 }
     \cup { b[3 * (r \div 3) + i][3 * (c \div 3) + j].solution : i \in 0..2, j \in 0..2 })
    \ {None}

\* C15: when find_candidates has finished, no unsolved cell has among its
\* candidates, or as its tentative pick, the solution of a solved cell of
\* its row, column or block.
C15_CandidatesAvoidSolvedPeers ==
  (pc = "guess_solutions" \/ (pc = "find_candidates" /\ pos = NumCells)) =>
    \A r \in Idx, c \in Idx :
      board[r][c].solution = None =>
        LET taken == PeerSolutions(board, r, c)
        IN  /\ board[r][c].candidates \cap taken = {}
            /\ board[r][c].candidate \notin taken

\* C15 witness: find_candidates has finished; an unsolved cell with stored
\* candidates comes in the sweep before a peer that found_solution committed.
C15_Witness ==
  /\ pc = "find_candidates"
  /\ pos = NumCells
  /\ \E r1 \in Idx, c1 \in Idx, rc \in Committed :
       /\ board[r1][c1].solution = None
       /\ board[r1][c1].candidates # {}
       /\ Peers(r1, c1, rc[1], rc[2])
       /\ r1 * 9 + c1 < rc[1] * 9 + rc[2]

\* The first unsolved cell of the grid g of solutions (cell i is row
\* i \div 9, column i % 9).
FirstOpen(g) == CHOOSE x \in 0..80 : g[x] = None /\ \A y \in 0..(x - 1) : g[y] # None

\* The digits that no peer of cell x holds in grid g.
FreeDigits(g, x) ==
  { d \in 1..9 : \A y \in 0..80 :
      Peers(x \div 9, x % 9, y \div 9, y % 9) => g[y] # d }

\* The completions of the grid g in which no digit is repeated among peers.
RECURSIVE Completions(_)
Completions(g) ==
  IF \A x \in 0..80 : g[x] # None THEN {g}
  ELSE UNION { Completions([g EXCEPT ![FirstOpen(g)] = d]) :
                 d \in FreeDigits(g, FirstOpen(g)) }

\* The valid completions of the input (the grid is handed over as an explicit
\* function, which @@ builds).
InputCompletions ==
  Completions([i \in 0..80 |-> input[i \div 9][i % 9].solution] @@ <<>>)

\* C16: when find_candidates has finished on an input with consistent
\* pre-filled cells, every solved cell holds the digit it has in every valid
\* completion of the input, and every unsolved cell still has among its
\* candidates the digit every valid completion gives it.
C16_PropagationSound ==
  (pc = "find_candidates" /\ pos = NumCells /\ UnitsDistinct(input)) =>
    \A g \in InputCompletions : \A i \in 0..80 :
      LET cell == board[i \div 9][i % 9]
      IN  IF cell.solution # None
            THEN cell.solution = g[i]
            ELSE g[i] \in cell.candidates

\* C16 witness: find_candidates has finished on an input with two valid
\* completions, with cells committed and cells left unsolved.
C16_Witness ==
  /\ pc = "find_candidates"
  /\ pos = NumCells
  /\ Cardinality(Committed) > 2
  /\ Cardinality(Committed) < Cardinality(InputUnsolved)
  /\ Rectangle \subseteq InputUnsolved
  /\ UnitsDistinct(input)
  /\ Cardinality(InputCompletions) = 2

\* The cells of block bi, by position.
BlockCells(bi) ==
  { rc \in Idx \X Idx : rc[1] \div 3 = bi \div 3 /\ rc[2] \div 3 = bi % 3 }

\* C17: throughout the propagation phase, from Sudoku::new on and after every
\* found_solution, the set of solutions cached for each block equals the set
\* of the solutions of the solved cells that lie in the block.
C17_BlockCacheInSync ==
  pc = "find_candidates" =>
    \A bi \in Idx :
      blocks[bi] = { board[rc[1]][rc[2]].solution : rc \in BlockCells(bi) } \ {None}

\* Propagation has committed digits, and the cache has grown with them.
C17_Witness ==
  /\ pc = "find_candidates"
  /\ Cardinality(Committed) > 2
  /\ \E rc \in Committed :
       board[rc[1]][rc[2]].solution \notin make_blocks(input)[block_index(rc[1], rc[2])]

\* The place of digit d in the enumeration order of the candidates of the
\* unsolved cell (row, col) of board b.
OrderIndex(b, row, col, d) ==
  Cardinality({ e \in b[row][col].candidates :
                  HashKey(e, seed, row, col) < HashKey(d, seed, row, col) })

\* C18: a try at a cell that was tried before (the search came back to it)
\* picks the candidate immediately after the last one tried at the cell in
\* the cell's enumeration order, a try at a cell with no last candidate picks
\* the first one, and a cell entered by advancing from the previous cell has
\* no cursor and no candidate.
C18_CursorResumesAtNext ==
  [][ (pc = "guess_solutions" /\ pc' = "guess_solutions" /\ cell_idx' >= cell_idx) =>
        LET row == unsolved_list[cell_idx + 1][1]
            col == unsolved_list[cell_idx + 1][2]
            last == board[row][col].candidate
            tried == board'[row][col].candidate
        IN  /\ tried \in board[row][col].candidates
            /\ OrderIndex(board, row, col, tried) =
                 IF last = None THEN 0 ELSE OrderIndex(board, row, col, last) + 1
            /\ (cell_idx' = cell_idx + 1 /\ cell_idx' < Len(unsolved_list)) =>
                 LET entered == board'[unsolved_list[cell_idx' + 1][1]][unsolved_list[cell_idx' + 1][2]]
                 IN  entered.candidate_idx = None /\ entered.candidate = None
    ]_vars

\* A cell was tried again after the search had backtracked into it: the
\* candidate before its last tried one had been accepted, so the search had
\* gone on to the next cell and come back.
C18_Witness ==
  /\ pc = "guess_solutions"
  /\ \E k \in 1..Len(unsolved_list) :
       LET row == unsolved_list[k][1]
           col == unsolved_list[k][2]
           cell == board[row][col]
       IN  /\ k - 1 <= cell_idx
           /\ cell.candidate_idx # None
           /\ cell.candidate_idx >= 2
           /\ cell.candidate = nth(cell.candidates, seed, row, col, cell.candidate_idx - 1)
           /\ can_choose_candidate(board, row, col,
                nth(cell.candidates, seed, row, col, cell.candidate_idx - 2))
           /\ k < Len(unsolved_list)
           /\ k - 1 < cell_idx =>
                board[unsolved_list[k + 1][1]][unsolved_list[k + 1][2]].candidate_idx = None

\* C19: a commit by found_solution(row, col, d) removes only digit d and only
\* from the candidates of the cells of the row, the column and the block of
\* (row, col): a peer without d among its candidates is unchanged, every
\* other digit of every candidate set is kept, and the cells outside the row,
\* the column and the block are unchanged.
C19_FoundSolutionFrame ==
  [][ (/\ pc = "find_candidates"
       /\ pos < NumCells
       /\ board[pos \div N][pos % N].solution = None
       /\ board'[pos \div N][pos % N].solution # None) =>
        LET row == pos \div N
            col == pos % N
            d == board'[row][col].solution
        IN  \A r \in Idx, c \in Idx :
              IF Peers(row, col, r, c)
                THEN /\ board'[r][c].candidates = board[r][c].candidates \ {d}
                     /\ board'[r][c].solution = board[r][c].solution
                     /\ board'[r][c].candidate = board[r][c].candidate
                     /\ board'[r][c].candidate_idx = board[r][c].candidate_idx
                     /\ d \notin board[r][c].candidates => board'[r][c] = board[r][c]
              ELSE IF <<r, c>> = <<row, col>>
                THEN board'[r][c] = [board[r][c] EXCEPT !.solution = d, !.candidates = {}]
              ELSE board'[r][c] = board[r][c]
    ]_vars

\* A committed digit that an earlier unsolved peer held as a candidate when
\* its candidates were stored: the commit removed it from that peer, and the
\* peer still holds other candidates.
C19_Witness ==
  /\ pc = "find_candidates"
  /\ \E rc \in Committed, p \in InputUnsolved \ Committed :
       LET d == board[rc[1]][rc[2]].solution
       IN  /\ Peers(rc[1], rc[2], p[1], p[2])
           /\ p[1] * N + p[2] < rc[1] * N + rc[2]
           /\ d \notin PeerSolutions(input, p[1], p[2])
           /\ \A q \in Committed :
                (q[1] * N + q[2] < p[1] * N + p[2] /\ Peers(q[1], q[2], p[1], p[2])) =>
                  board[q[1]][q[2]].solution # d
           /\ d \notin board[p[1]][p[2]].candidates
           /\ board[p[1]][p[2]].candidates # {}

\* C20: for every input, consistent or not, no assertion of the engine fails:
\* block_index is below 9 for every cell, and when find_cell_candidates is
\* called for an unsolved cell the block of the cell holds fewer than 9 digits.
C20_NoAssertionFails ==
  /\ \A row \in Idx, col \in Idx : block_index(row, col) \in 0..(N - 1)
  /\ (/\ pc = "find_candidates"
      /\ pos < NumCells
      /\ board[pos \div N][pos % N].solution = None) =>
       Cardinality(blocks[block_index(pos \div N, pos % N)]) < N

\* In the middle of the sweep, after a commit, find_cell_candidates is about to
\* be called for an unsolved cell whose block already holds 8 digits, on an
\* input with a repeated digit in some unit.
C20_Witness ==
  /\ pc = "find_candidates"
  /\ pos > 0
  /\ pos < NumCells
  /\ Committed # {}
  /\ board[pos \div N][pos % N].solution = None
  /\ Cardinality(blocks[block_index(pos \div N, pos % N)]) = N - 1
  /\ ~UnitsDistinct(input)

====
